---- MODULE Spec2Model ----
(***************************************************************************)
(* Model of SupConLoss.forward (src/losses.py).                            *)
(*                                                                         *)
(* Tensors are sequences (1-indexed; the source's 0-based index k is       *)
(* position k+1).  The entries of `features` are kept symbolic: the entry  *)
(* of a features tensor is the tuple of its original 0-based indices, so   *)
(* that every slice of the input is distinct from every other and the      *)
(* layout operations (view, unbind, cat, indexing) are checked on what     *)
(* they move where.  A logit is the symbolic pair of the anchor row and    *)
(* the contrast row whose inner product it is.                             *)
(***************************************************************************)
EXTENDS Integers, Sequences, FiniteSets, TLC

\* ---- bounds of the explored inputs ----
MaxB == 2
MaxV == 2
MaxRank == 4
FeatDim == 2
NumLabels == 2

\* an optional argument: None, or Some(x) holding x
None == <<>>
Some(x) == <<x>>
Get(o) == o[1]

Modes == {"one", "all", "other"}

\* ---- error messages of the four raise statements ----
ErrRank == "features needs to be [bsz, n_views, ...], at least 3 dimensions are required"
ErrBoth == "Cannot define both labels and mask"
ErrLabels == "Num of labels does not match num of features"
ErrMode == "Unknown mode"

\* ---- tensor helpers ----
RECURSIVE Prod(_)
Prod(s) == IF s = <<>> THEN 1 ELSE Head(s) * Prod(Tail(s))

RECURSIVE Concat(_)
Concat(ss) == IF ss = <<>> THEN <<>> ELSE Head(ss) \o Concat(Tail(ss))

RECURSIVE SumSeq(_)
SumSeq(s) == IF s = <<>> THEN 0 ELSE Head(s) + SumSeq(Tail(s))

\* all 0-based index tuples of a shape, in row-major (contiguous memory) order
RECURSIVE Indices(_)
Indices(shp) ==
    IF shp = <<>> THEN << <<>> >>
    ELSE LET rest == Indices(Tail(shp))
         IN  Concat([k \in 1..Head(shp) |-> [n \in 1..Len(rest) |-> <<k - 1>> \o rest[n]]])

\* shape of the features tensor: [bsz, n_views, ...] with rank - 2 trailing
\* dimensions (rank 2 is [bsz, dim])
ShapeOf(b, v, rank) ==
    IF rank = 2 THEN <<b, FeatDim>>
    ELSE <<b, v>> \o [k \in 1..(rank - 2) |-> FeatDim]

\* the input tensor as data: its shape and its entries in memory order
Tensor(shp) == [shape |-> shp, data |-> Indices(shp)]

\* len(features.shape) < 3
RankTooSmallBug(t) == Len(t.shape) < 2
RankTooSmall(t) == Len(t.shape) < 3

\* features.view(features.shape[0], features.shape[1], -1)
ViewFlatten(t) ==
    [shape |-> <<t.shape[1], t.shape[2], Prod(SubSeq(t.shape, 3, Len(t.shape)))>>,
     data |-> t.data]

\* features[i, v] of a rank-3 tensor (0-based i, v): a row of shape[3] entries
Slice(t, i, v) ==
    LET d == t.shape[3]
        off == (i * t.shape[2] + v) * d
    IN  [k \in 1..d |-> t.data[off + k]]

\* torch.unbind(features, dim=1): one [bsz, D] matrix per view
Unbind1(t) == [v \in 1..t.shape[2] |-> [i \in 1..t.shape[1] |-> Slice(t, i - 1, v - 1)]]

\* torch.cat(..., dim=0)
Cat0(ms) == Concat(ms)

\* features[:, 0]
SelectView0Bug(t) == [v \in 1..t.shape[2] |-> Slice(t, 0, v - 1)]
SelectView0(t) == [i \in 1..t.shape[1] |-> Slice(t, i - 1, 0)]

\* ---- mask construction ----
\* which branch of the if / elif chain of lines 45-55 is taken
BranchBug(lab, m) ==
    IF lab = None /\ m = None THEN "eye"
    ELSE IF lab # None /\ m = None THEN "labels"
    ELSE "mask"
Branch(lab, m) ==
    IF lab # None /\ m # None THEN "both"
    ELSE IF lab = None /\ m = None THEN "eye"
    ELSE IF lab # None THEN "labels"
    ELSE "mask"

\* torch.eye(batch_size)
EyeBug(n) == [i \in 1..n |-> [j \in 1..n |-> IF i <= j THEN 1 ELSE 0]]
Eye(n) == [i \in 1..n |-> [j \in 1..n |-> IF i = j THEN 1 ELSE 0]]

\* labels.contiguous().view(-1, 1): a column, one row per label
ViewColumn(lab) == [i \in 1..Len(lab) |-> <<lab[i]>>]

\* labels.T of the column
Transpose(col) == << [j \in 1..Len(col) |-> col[j][1]] >>

\* labels.shape[0] != batch_size
LabelsMismatchBug(col, bs) == Len(col) > bs
LabelsMismatch(col, bs) == Len(col) # bs

\* torch.eq(labels, labels.T).float(): broadcast of [n,1] against [1,n]
EqMaskBug(col) ==
    LET row == Transpose(col)
    IN  [i \in 1..Len(col) |-> [j \in 1..Len(row[1]) |->
            IF col[i][1] <= row[1][j] THEN 1 ELSE 0]]
EqMask(col) ==
    LET row == Transpose(col)
    IN  [i \in 1..Len(col) |-> [j \in 1..Len(row[1]) |->
            IF col[i][1] = row[1][j] THEN 1 ELSE 0]]

\* ---- anchors ----
KnownModeBug(mode) == TRUE
KnownMode(mode) == mode \in {"one", "all"}

AnchorCount(mode, cc) == IF mode = "one" THEN 1 ELSE cc

ContrastFeature(t) == Cat0(Unbind1(t))

AnchorFeature(mode, t) == IF mode = "one" THEN SelectView0(t) ELSE ContrastFeature(t)

\* torch.matmul(anchor_feature, contrast_feature.T) / temperature, minus the
\* row maximum: entry [r, c] is the (shifted, scaled) inner product of anchor
\* row r and contrast row c, kept symbolic
Logits(af, cf) == [r \in 1..Len(af) |-> [c \in 1..Len(cf) |-> [a |-> af[r], b |-> cf[c]]]]

\* ---- tiling and self-exclusion ----
\* mask.repeat(anchor_count, contrast_count)
RepeatBug(m, a, c) ==
    LET n == Len(m)
        w == IF n = 0 THEN 0 ELSE Len(m[1])
    IN  [r \in 1..(a * n) |-> [k \in 1..(c * w) |->
            m[((r - 1) \div a) + 1][((k - 1) \div c) + 1]]]
Repeat(m, a, c) ==
    LET n == Len(m)
        w == IF n = 0 THEN 0 ELSE Len(m[1])
    IN  [r \in 1..(a * n) |-> [k \in 1..(c * w) |->
            m[((r - 1) % n) + 1][((k - 1) % w) + 1]]]

\* torch.ones_like(mask)
OnesLike(m) == [r \in 1..Len(m) |-> [k \in 1..Len(m[r]) |-> 1]]

\* torch.arange(n).view(-1, 1)
ArangeColumn(n) == [r \in 1..n |-> <<r - 1>>]

\* torch.scatter(src, 1, index, value): out[i][index[i][j]] = value
Scatter1(src, index, value) ==
    [r \in 1..Len(src) |-> [k \in 1..Len(src[r]) |->
        IF r <= Len(index) /\ \E j \in 1..Len(index[r]) : index[r][j] = k - 1
        THEN value ELSE src[r][k]]]

\* the index of line 82
ScatterIndexBug(bs, ac) == ArangeColumn(bs)
ScatterIndex(bs, ac) == ArangeColumn(bs * ac)

LogitsMask(m, bs, ac) == Scatter1(OnesLike(m), ScatterIndex(bs, ac), 0)

\* elementwise product of two matrices of one shape
Mul(m, n) == [r \in 1..Len(m) |-> [k \in 1..Len(m[r]) |-> m[r][k] * n[r][k]]]

\* ---- log-probabilities and the reduction ----
\* floating-point values: a finite value is kept as the symbolic expression
\* that produced it; the others are the IEEE specials
NaN == [kind |-> "nan"]
PosInf == [kind |-> "+inf"]
NegInf == [kind |-> "-inf"]

\* exp_logits.sum(1)[r]: the terms exp(logits[r][c]) the logits_mask keeps
\* (each is > 0); the sum is 0 exactly when no term is kept
ExpSum(lg, lm, r) == {c \in 1..Len(lg[r]) : lm[r][c] = 1}

\* log_prob[r][c] = logits[r][c] - log(exp_logits.sum(1)[r]); log(0) = -inf
\* makes the entry +inf
LogProb(lg, lm, r, c) ==
    IF ExpSum(lg, lm, r) = {} THEN PosInf
    ELSE [kind |-> "finite", logit |-> lg[r][c],
          logsumexp |-> {lg[r][k] : k \in ExpSum(lg, lm, r)}]

\* (mask * log_prob).sum(1)[r] in IEEE arithmetic: 0 * inf = nan
MaskedSum(m, lg, lm, r) ==
    LET cols == 1..Len(m[r])
    IN  IF \E c \in cols : m[r][c] = 0 /\ LogProb(lg, lm, r, c) = PosInf THEN NaN
        ELSE IF \E c \in cols : m[r][c] # 0 /\ LogProb(lg, lm, r, c) = PosInf THEN PosInf
        ELSE [kind |-> "finite",
              terms |-> {<<c, LogProb(lg, lm, r, c)>> : c \in {k \in cols : m[r][k] # 0}}]

\* mean_log_prob_pos[r] = (mask * log_prob).sum(1)[r] / mask.sum(1)[r]
\* in IEEE arithmetic: 0 / 0 = nan / 0 = nan, inf / 0 = inf
MeanLogProbPosBug(m, lg, lm, r) ==
    LET num == MaskedSum(m, lg, lm, r)
        den == SumSeq(m[r])
    IN  IF den = 0 THEN [kind |-> "finite", num |-> 0, den |-> 1]
        ELSE IF num.kind # "finite" THEN num
        ELSE [kind |-> "finite", num |-> num, den |-> den]
MeanLogProbPos(m, lg, lm, r) ==
    LET num == MaskedSum(m, lg, lm, r)
        den == SumSeq(m[r])
    IN  IF num = NaN THEN NaN
        ELSE IF num = PosInf THEN PosInf
        ELSE IF den = 0 THEN NaN
        ELSE [kind |-> "finite", num |-> num, den |-> den]

\* - (temperature / base_temperature) * mean_log_prob_pos, then
\* loss.view(anchor_count, batch_size).mean()
Loss(m, lg, lm, ac, bs) ==
    LET rows == [r \in 1..(ac * bs) |-> MeanLogProbPos(m, lg, lm, r)]
    IN  IF \E r \in 1..(ac * bs) : rows[r] = NaN THEN NaN
        ELSE IF \E r \in 1..(ac * bs) : rows[r] = PosInf THEN NegInf
        ELSE [kind |-> "finite", mean_of |-> rows, count |-> ac * bs]

\* ---- inputs ----
BatchSizes == 1..MaxB
ViewCounts == 1..MaxV
Ranks == 2..MaxRank
LabelValues == 0..(NumLabels - 1)

\* label vectors of a length within one of the batch size
LabelVectors(b) == UNION {[1..n -> LabelValues] : n \in (b - 1)..(b + 1)}

\* [bsz, bsz] masks with entries in {0, 1}
Masks(b) == [1..b -> [1..b -> {0, 1}]]

\* the masks passed together with labels: identity, all zeros, all ones
ConflictMasks(b) == {Eye(b)} \cup {[i \in 1..b |-> [j \in 1..b |-> x]] : x \in {0, 1}}

\* the (labels, mask) argument pairs: neither, labels only, mask only, both
Arguments(b) ==
    {<<None, None>>}
    \cup {<<Some(l), None>> : l \in LabelVectors(b)}
    \cup {<<None, Some(m)>> : m \in Masks(b)}
    \cup {<<Some(l), Some(m)>> : l \in LabelVectors(b), m \in ConflictMasks(b)}

\* ---- state ----
VARIABLES
    contrast_mode,     \* self.contrast_mode
    in_features,       \* the features argument as passed
    in_labels,         \* the labels argument: None or Some(vector)
    in_mask,           \* the mask argument: None or Some(matrix)
    pc,                \* position in forward
    features,          \* the local features (rebound by the view of line 42)
    batch_size,
    mask,              \* the local mask; <<>> until assigned
    contrast_count,
    contrast_feature,
    anchor_feature,
    anchor_count,
    logits,
    logits_mask,
    loss,              \* None until returned, then Some(value)
    err                \* message of the ValueError raised, "" if none

vars == <<contrast_mode, in_features, in_labels, in_mask, pc, features, batch_size,
          mask, contrast_count, contrast_feature, anchor_feature, anchor_count,
          logits, logits_mask, loss, err>>

Init ==
    /\ contrast_mode \in Modes
    /\ \E b \in BatchSizes, v \in ViewCounts, rank \in Ranks :
          /\ in_features = Tensor(ShapeOf(b, v, rank))
          /\ \E args \in Arguments(b) : in_labels = args[1] /\ in_mask = args[2]
    /\ pc = "check_rank"
    /\ features = in_features
    /\ batch_size = 0
    /\ mask = <<>>
    /\ contrast_count = 0
    /\ contrast_feature = <<>>
    /\ anchor_feature = <<>>
    /\ anchor_count = 0
    /\ logits = <<>>
    /\ logits_mask = <<>>
    /\ loss = None
    /\ err = ""

Raise(msg) == pc' = "raised" /\ err' = msg

\* lines 38-42
CheckRank ==
    /\ pc = "check_rank"
    /\ IF RankTooSmall(features)
       THEN /\ Raise(ErrRank)
            /\ UNCHANGED features
       ELSE /\ features' = IF Len(features.shape) > 3 THEN ViewFlatten(features)
                           ELSE features
            /\ pc' = "build_mask"
            /\ UNCHANGED err
    /\ UNCHANGED <<contrast_mode, in_features, in_labels, in_mask, batch_size, mask,
                   contrast_count, contrast_feature, anchor_feature, anchor_count,
                   logits, logits_mask, loss>>

\* lines 44-55
BuildMask ==
    /\ pc = "build_mask"
    /\ batch_size' = features.shape[1]
    /\ LET br == Branch(in_labels, in_mask)
       IN  CASE br = "both" ->
                  Raise(ErrBoth) /\ UNCHANGED mask
             [] br = "eye" ->
                  mask' = Eye(batch_size') /\ pc' = "select_anchors" /\ UNCHANGED err
             [] br = "labels" ->
                  LET labels == ViewColumn(Get(in_labels))
                  IN  IF LabelsMismatch(labels, batch_size')
                      THEN Raise(ErrLabels) /\ UNCHANGED mask
                      ELSE mask' = EqMask(labels) /\ pc' = "select_anchors"
                           /\ UNCHANGED err
             [] br = "mask" ->
                  mask' = Get(in_mask) /\ pc' = "select_anchors" /\ UNCHANGED err
    /\ UNCHANGED <<contrast_mode, in_features, in_labels, in_mask, features,
                   contrast_count, contrast_feature, anchor_feature, anchor_count,
                   logits, logits_mask, loss>>

\* lines 57-66
SelectAnchors ==
    /\ pc = "select_anchors"
    /\ contrast_count' = features.shape[2]
    /\ contrast_feature' = ContrastFeature(features)
    /\ IF KnownMode(contrast_mode)
       THEN /\ anchor_feature' = AnchorFeature(contrast_mode, features)
            /\ anchor_count' = AnchorCount(contrast_mode, contrast_count')
            /\ pc' = "compute_logits"
            /\ UNCHANGED err
       ELSE /\ Raise(ErrMode)
            /\ UNCHANGED <<anchor_feature, anchor_count>>
    /\ UNCHANGED <<contrast_mode, in_features, in_labels, in_mask, features, batch_size,
                   mask, logits, logits_mask, loss>>

\* lines 69-74
ComputeLogits ==
    /\ pc = "compute_logits"
    /\ logits' = Logits(anchor_feature, contrast_feature)
    /\ pc' = "tile_mask"
    /\ UNCHANGED <<contrast_mode, in_features, in_labels, in_mask, features, batch_size,
                   mask, contrast_count, contrast_feature, anchor_feature, anchor_count,
                   logits_mask, loss, err>>

\* line 77
TileMask ==
    /\ pc = "tile_mask"
    /\ mask' = Repeat(mask, anchor_count, contrast_count)
    /\ pc' = "build_logits_mask"
    /\ UNCHANGED <<contrast_mode, in_features, in_labels, in_mask, features, batch_size,
                   contrast_count, contrast_feature, anchor_feature, anchor_count,
                   logits, logits_mask, loss, err>>

\* lines 79-84
BuildLogitsMask ==
    /\ pc = "build_logits_mask"
    /\ logits_mask' = LogitsMask(mask, batch_size, anchor_count)
    /\ pc' = "apply_logits_mask"
    /\ UNCHANGED <<contrast_mode, in_features, in_labels, in_mask, features, batch_size,
                   mask, contrast_count, contrast_feature, anchor_feature, anchor_count,
                   logits, loss, err>>

\* line 85
ApplyLogitsMask ==
    /\ pc = "apply_logits_mask"
    /\ mask' = Mul(mask, logits_mask)
    /\ pc' = "compute_loss"
    /\ UNCHANGED <<contrast_mode, in_features, in_labels, in_mask, features, batch_size,
                   contrast_count, contrast_feature, anchor_feature, anchor_count,
                   logits, logits_mask, loss, err>>

\* lines 88-98
ComputeLoss ==
    /\ pc = "compute_loss"
    /\ loss' = Some(Loss(mask, logits, logits_mask, anchor_count, batch_size))
    /\ pc' = "done"
    /\ UNCHANGED <<contrast_mode, in_features, in_labels, in_mask, features, batch_size,
                   mask, contrast_count, contrast_feature, anchor_feature, anchor_count,
                   logits, logits_mask, err>>

Next ==
    \/ CheckRank
    \/ BuildMask
    \/ SelectAnchors
    \/ ComputeLogits
    \/ TileMask
    \/ BuildLogitsMask
    \/ ApplyLogitsMask
    \/ ComputeLoss

Spec == Init /\ [][Next]_vars

TypeOK ==
    /\ pc \in {"check_rank", "build_mask", "select_anchors", "compute_logits",
               "tile_mask", "build_logits_mask", "apply_logits_mask", "compute_loss",
               "done", "raised"}
    /\ err \in {"", ErrRank, ErrBoth, ErrLabels, ErrMode}

\* ---- the call as seen from outside ----
InRank == Len(in_features.shape)
B == in_features.shape[1]
V == in_features.shape[2]

\* the entries of the input that belong to sample i, view v (0-based), in
\* memory order
InputRow(i, v) == SelectSeq(in_features.data, LAMBDA ix : ix[1] = i /\ ix[2] = v)

\* the labels / mask arguments as passed
L == Get(in_labels)
M == Get(in_mask)

Returned == pc = "done"
Raised(msg) == pc = "raised" /\ err = msg /\ loss = None

\* the mask exists and has not been tiled yet
PreTile == pc \in {"select_anchors", "compute_logits", "tile_mask"}

\* tiling and self-exclusion have both been applied to the mask
PostExclusion == pc \in {"compute_loss", "done"}

\* C1: with features of rank >= 3 and both labels and mask supplied, the call
\* raises the labels/mask conflict error and returns no loss, whatever the
\* labels, the mask and the contrast mode are.
C1_BothRaises ==
    (InRank >= 3 /\ in_labels # None /\ in_mask # None
        /\ pc \notin {"check_rank", "build_mask"})
    => Raised(ErrBoth)

C1_Witness ==
    /\ Raised(ErrBoth)
    /\ InRank = 4
    /\ contrast_mode = "other"
    /\ Len(L) # B

\* C2: the rank error is raised exactly when features has rank < 3, whatever
\* labels, mask and contrast mode are; a rank > 3 input is accepted and its
\* trailing dimensions are flattened into one feature axis.
C2_RankCheck ==
    (pc # "check_rank") =>
        /\ (err = ErrRank) <=> (InRank < 3)
        /\ (InRank < 3) => Raised(ErrRank)
        /\ (InRank >= 3) =>
              /\ features.shape = <<B, V, Prod(SubSeq(in_features.shape, 3, InRank))>>
              /\ \A i \in 0..(B - 1), v \in 0..(V - 1) :
                    Slice(features, i, v) = InputRow(i, v)

C2_Witness ==
    /\ pc = "build_mask"
    /\ InRank = 4
    /\ features.shape = <<2, 2, FeatDim * FeatDim>>

C2_WitnessRaised == Raised(ErrRank) /\ in_labels # None /\ in_mask # None

\* C3: with features of rank >= 3, labels given and no mask, the call raises
\* the labels-length error if and only if the number of labels differs from
\* batch_size; then no mask is built and no loss is returned.
C3_LabelsLength ==
    (InRank >= 3 /\ in_labels # None /\ in_mask = None
        /\ pc \notin {"check_rank", "build_mask"}) =>
        /\ (err \in {ErrRank, ErrLabels}) <=> (Len(L) # B)
        /\ (Len(L) # B) => (Raised(ErrLabels) /\ mask = <<>>)
        /\ (Len(L) = B) => (Len(mask) >= B /\ batch_size = B)

C3_Witness ==
    /\ Raised(ErrLabels)
    /\ in_mask = None
    /\ Len(L) = B - 1
    /\ B = 2

C3_WitnessAccepted ==
    /\ Returned
    /\ in_labels # None
    /\ Len(L) = B

\* C4: once the shape and labels/mask validation has passed, the call fails
\* with the unknown-mode error when contrast_mode is neither 'one' nor 'all',
\* and never fails with it when contrast_mode is 'one' or 'all'.
C4_UnknownMode ==
    (pc \notin {"check_rank", "build_mask", "select_anchors"}
        /\ err \notin {ErrRank, ErrBoth, ErrLabels}) =>
        /\ (err = ErrMode) <=> (contrast_mode \notin {"one", "all"})
        /\ (contrast_mode \notin {"one", "all"}) => Raised(ErrMode)

C4_Witness == Raised(ErrMode) /\ contrast_mode = "other" /\ in_mask # None

C4_WitnessKnown == Returned /\ contrast_mode = "one"

\* C5: with labels = None and mask = None, the per-sample mask before tiling
\* is the B x B identity matrix.
C5_DefaultMask ==
    (in_labels = None /\ in_mask = None /\ PreTile) =>
        /\ Len(mask) = B
        /\ \A i \in 1..B :
              /\ Len(mask[i]) = B
              /\ \A j \in 1..B : mask[i][j] = (IF i = j THEN 1 ELSE 0)

C5_Witness == in_labels = None /\ in_mask = None /\ pc = "tile_mask" /\ B = 2

\* C6: for a labels vector L of length B, the per-sample mask before tiling
\* has mask[i][j] = 1 iff L[i] = L[j] and 0 otherwise; it is symmetric and its
\* diagonal is all ones.
C6_LabelMask ==
    (in_labels # None /\ in_mask = None /\ PreTile) =>
        /\ Len(mask) = B
        /\ \A i \in 1..B :
              /\ Len(mask[i]) = B
              /\ mask[i][i] = 1
              /\ \A j \in 1..B :
                    /\ mask[i][j] = (IF L[i] = L[j] THEN 1 ELSE 0)
                    /\ mask[i][j] = mask[j][i]

C6_Witness ==
    /\ in_labels # None /\ in_mask = None /\ pc = "tile_mask"
    /\ B = 2
    /\ L[1] # L[2]

\* C7: logits_mask has shape [anchor_count * B, V * B]; its entry [r, c] is 0
\* iff c = r, so each row has exactly one zero, at its own flattened index,
\* anchor_count * B zeros in all (in mode 'one' all in the first B columns).
ZerosOf(m) == {rc \in (1..Len(m)) \X (1..(V * B)) : m[rc[1]][rc[2]] = 0}

C7_SelfExclusion ==
    (pc \in {"apply_logits_mask", "compute_loss", "done"}) =>
        /\ anchor_count = (IF contrast_mode = "one" THEN 1 ELSE V)
        /\ Len(logits_mask) = anchor_count * B
        /\ \A r \in 1..(anchor_count * B) :
              /\ Len(logits_mask[r]) = V * B
              /\ \A c \in 1..(V * B) : logits_mask[r][c] = (IF c = r THEN 0 ELSE 1)
              /\ Cardinality({c \in 1..(V * B) : logits_mask[r][c] = 0}) = 1
        /\ Cardinality(ZerosOf(logits_mask)) = anchor_count * B
        /\ (contrast_mode = "one") => \A rc \in ZerosOf(logits_mask) : rc[2] <= B

C7_Witness ==
    /\ pc = "apply_logits_mask"
    /\ contrast_mode = "all"
    /\ B = 2 /\ V = 2
    /\ logits_mask[4][4] = 0

C7_WitnessOne ==
    /\ pc = "apply_logits_mask"
    /\ contrast_mode = "one"
    /\ B = 2 /\ V = 2

\* ---- forward as a function of the mode, on the arguments of this call ----
OtherMode(mode) == IF mode = "one" THEN "all" ELSE "one"

Forward(mode) ==
    LET f == IF InRank > 3 THEN ViewFlatten(in_features) ELSE in_features
        bs == f.shape[1]
        br == Branch(in_labels, in_mask)
        m0 == IF br = "eye" THEN Eye(bs)
              ELSE IF br = "labels" THEN EqMask(ViewColumn(L))
              ELSE M
        cc == f.shape[2]
        cf == ContrastFeature(f)
        af == AnchorFeature(mode, f)
        ac == AnchorCount(mode, cc)
        lg == Logits(af, cf)
        tiled == Repeat(m0, ac, cc)
        lm == LogitsMask(tiled, bs, ac)
        fm == Mul(tiled, lm)
    IN  [anchor_feature |-> af, anchor_count |-> ac, tiled |-> tiled,
         logits_mask |-> lm, mask |-> fm, loss |-> Loss(fm, lg, lm, ac, bs)]

\* C8: with n_views = 1, the call made in mode 'one' and the call made in mode
\* 'all' have the same anchor_feature, the same anchor_count (1), the same
\* tiled mask and logits_mask, and the same loss.
C8_ModeEquivalence ==
    (InRank >= 3 /\ V = 1 /\ err = "") =>
        LET other == Forward(OtherMode(contrast_mode))
        IN  /\ (pc \in {"compute_logits", "tile_mask", "build_logits_mask",
                        "apply_logits_mask", "compute_loss", "done"}) =>
                  /\ anchor_feature = other.anchor_feature
                  /\ anchor_count = 1
                  /\ other.anchor_count = 1
            /\ (pc = "build_logits_mask") => mask = other.tiled
            /\ (pc \in {"apply_logits_mask", "compute_loss", "done"}) =>
                  logits_mask = other.logits_mask
            /\ (pc \in {"compute_loss", "done"}) => mask = other.mask
            /\ Returned => loss = Some(other.loss)

C8_Witness ==
    /\ Returned
    /\ V = 1 /\ B = 2
    /\ in_labels # None
    /\ Get(loss).kind = "finite"

\* C9: after tiling and self-exclusion the positive mask follows the
\* view-major layout of the rows (index v * B + i is view v of sample i):
\* the entry [r, c] is the per-sample mask's entry [r mod B, c mod B] when
\* r # c, and 0 when r = c.
PerSample(i, j) ==
    IF in_mask # None THEN M[i][j]
    ELSE IF in_labels # None THEN (IF L[i] = L[j] THEN 1 ELSE 0)
    ELSE (IF i = j THEN 1 ELSE 0)

C9_TiledAlignment ==
    PostExclusion =>
        /\ Len(mask) = anchor_count * B
        /\ Len(contrast_feature) = V * B
        /\ \A c \in 0..(V * B - 1) :
              contrast_feature[c + 1] = InputRow(c % B, c \div B)
        /\ \A r \in 0..(anchor_count * B - 1) :
              /\ anchor_feature[r + 1] = InputRow(r % B, r \div B)
              /\ Len(mask[r + 1]) = V * B
              /\ \A c \in 0..(V * B - 1) :
                    /\ logits[r + 1][c + 1] = [a |-> InputRow(r % B, r \div B),
                                               b |-> InputRow(c % B, c \div B)]
                    /\ mask[r + 1][c + 1] =
                          (IF r = c THEN 0 ELSE PerSample((r % B) + 1, (c % B) + 1))

\* a cross-view pair of one sample is a positive, its self-pair is not
C9_Witness ==
    /\ PostExclusion
    /\ B = 2 /\ V = 2
    /\ contrast_mode = "all"
    /\ in_mask # None
    /\ M[1][2] # M[2][1]
    /\ mask[1][1] = 0
    /\ mask[1][3] = 1

\* C10: a row without positives is not guarded.  If after self-exclusion some
\* anchor row sums to 0, the call raises nothing and returns NaN (so with
\* labels = None, mask = None and one view, or with a unique label and one
\* view); when every anchor row has a positive, no row divides by zero and
\* the loss is not NaN.
AnchorRows == 1..Len(mask)
HasPositive(r) == \E c \in 1..Len(mask[r]) : mask[r][c] > 0
UniqueLabel(i) == \A j \in 1..B : (j # i) => L[j] # L[i]

C10_ZeroPositives ==
    PostExclusion =>
        /\ err = ""
        /\ (\A r \in AnchorRows : HasPositive(r)) =>
              \A r \in AnchorRows : SumSeq(mask[r]) # 0
        /\ (in_labels = None /\ in_mask = None /\ V = 1) =>
              \E r \in AnchorRows : ~HasPositive(r)
        /\ (in_labels # None /\ V = 1 /\ \E i \in 1..B : UniqueLabel(i)) =>
              \E r \in AnchorRows : ~HasPositive(r)
        /\ Returned =>
              /\ (\E r \in AnchorRows : ~HasPositive(r)) => loss = Some(NaN)
              /\ (\A r \in AnchorRows : HasPositive(r)) => Get(loss).kind = "finite"

C10_Witness ==
    /\ Returned
    /\ loss = Some(NaN)
    /\ in_labels # None
    /\ V = 1 /\ B = 2
    /\ UniqueLabel(1) /\ ~HasPositive(1)

C10_WitnessFinite ==
    /\ Returned
    /\ Get(loss).kind = "finite"
    /\ in_labels = None /\ in_mask = None
    /\ V = 2

====
